---- MODULE Spec2Model ----
(***************************************************************************)
(* Authentication-token validation and public-key rotation of the Go       *)
(* edgecontext library (lib/go/edgecontext): Impl.ValidateToken,           *)
(* Impl.validatorMiddleware, parseVersionedKeys, keysType.getKey and        *)
(* RSAPublicKeyFingerprint.                                                *)
(*                                                                         *)
(* Three specifications share the variables:                               *)
(*   Spec     rotation handler and ValidateToken calls interleaved line by *)
(*            line (small inputs);                                         *)
(*   SpecRot  the rotation handler alone, line by line, over every         *)
(*            versioned secret;                                            *)
(*   SpecSeq  whole handler invocations and whole ValidateToken calls, one *)
(*            after another, over every token and every versioned secret.  *)
(***************************************************************************)
EXTENDS Integers, Sequences, FiniteSets, TLC

VARIABLES
    heap,       \* the *keysType objects that are still referenced: id -> [m, first]
    keysValue,  \* impl.keysValue (atomic.Value): 0 = nothing stored, else a *keysType
    nrot,       \* number of handler invocations so far
    rpc,        \* the rotation handler's position
    rsec,       \* versioned secret the running handler got
    rall,       \* versioned.GetAll() of the running handler
    ri,         \* loop index of parseVersionedKeys (1-based)
    rkeys,      \* the handler's local keys pointer (0 = nil)
    rnext,      \* calls of next(sec) made by the current/last handler invocation
    vpc,        \* per ValidateToken caller: position
    vtoken,     \* per caller: the token argument
    vkeys,      \* per caller: the local keys pointer loaded from keysValue
    vkey,       \* per caller: the key the keyfunc handed to the jwt parser
    vmethod,    \* per caller: the signing method whose Verify ran ("" if none)
    vresult,    \* per caller: the returned (claims, err)
    now         \* time.Now()

vars == <<heap, keysValue, nrot, rpc, rsec, rall, ri, rkeys, rnext,
          vpc, vtoken, vkeys, vkey, vmethod, vresult, now>>

rotVars == <<nrot, rpc, rsec, rall, ri, rkeys, rnext>>
valVars == <<vpc, vtoken, vkeys, vkey, vmethod, vresult>>

(***************************************************************************)
(* Bounds                                                                  *)
(***************************************************************************)
MaxRotations == 2
NumValidators == 2
MaxNow == 1

Validators == 1..NumValidators

(***************************************************************************)
(* Keys, PEM material, fingerprints                                        *)
(***************************************************************************)
Nil == "nil"

\* The three RSA public keys of the test fixture (validKey1..validKey3).
Keys == {"K1", "K2", "K3"}

\* A secret is a byte string, here its PEM lines; <<>> is the nil/empty secret.
PEM(k) == <<"BEGIN PUBLIC KEY", k, "END PUBLIC KEY">>

\* The fixture's invalidKey: the body of validKey1 without the END line.
invalidKey == <<"BEGIN PUBLIC KEY", "K1">>

NoSecret == <<>>

\* A key that parses but for which ssh.NewPublicKey returns an error, the case
\* lines 134-139 and 157-159 handle.
UnencodableKeys == {"K4"}

\* jwt.ParseRSAPublicKeyFromPEM: the key, or Nil when it returns an error.
ParseRSAPublicKeyFromPEM(v) ==
    IF /\ Len(v) = 3
       /\ v[1] = "BEGIN PUBLIC KEY"
       /\ v[3] = "END PUBLIC KEY"
       /\ v[2] \in Keys \cup UnencodableKeys
    THEN v[2]
    ELSE Nil

\* ssh.FingerprintSHA256 of the fixture keys (fingerprint1..fingerprint3).
FingerprintSHA256(key) ==
    CASE key = "K1" -> "SHA256:lZ0hkWRsDpapeBu2ekX9WY2oYInHwdRaXTwtBecDicI"
      [] key = "K2" -> "SHA256:EM4Jt7RjoQIPqpRFTadBCQkdzu+G4tq1RWd3f+I6nRg"
      [] key = "K3" -> "SHA256:DGsuFb8nHgtg88dwIsTnGL3J8Hx+yCksl0WEBCbm5Zc"
      [] OTHER -> "SHA256:"

\* RSAPublicKeyFingerprint: (fingerprint, err).
RSAPublicKeyFingerprint(pubKey) ==
    IF pubKey \in UnencodableKeys
    THEN [fingerprint |-> "", err |-> TRUE]
    ELSE [fingerprint |-> FingerprintSHA256(pubKey), err |-> FALSE]

\* secrets.VersionedSecret: Current, Previous, Next.
VersionedSecret(c, p, n) == [Current |-> c, Previous |-> p, Next |-> n]

\* VersionedSecret.GetAll: Current always, Previous and Next when not nil.
GetAll(versioned) ==
    <<versioned.Current>>
        \o (IF versioned.Previous # NoSecret THEN <<versioned.Previous>> ELSE <<>>)
        \o (IF versioned.Next # NoSecret THEN <<versioned.Next>> ELSE <<>>)

(***************************************************************************)
(* keysType                                                                *)
(***************************************************************************)
EmptyMap == [fp \in {} |-> Nil]

\* &keysType{m: make(map[string]*rsa.PublicKey, len(all))}
NewKeys == [m |-> EmptyMap, first |-> Nil]

\* keys.m[fingerprint] = key
MapSet(m, fp, key) == [f \in DOMAIN m \cup {fp} |-> IF f = fp THEN key ELSE m[f]]

\* kt.m[kid] of a Go map: nil when kid is not a key of the map.
MapGet(m, kid) == IF kid \in DOMAIN m THEN m[kid] ELSE Nil

\* getKey without the fallback to kt.first.
getKey_NoFallback(kt, kid) == MapGet(kt.m, kid)

\* keysType.getKey
getKey(kt, kid) ==
    IF MapGet(kt.m, kid) # Nil THEN MapGet(kt.m, kid) ELSE kt.first

\* The loop body skipping a key whose fingerprint fails altogether.
parseOneKey_SkipUnencodable(keys, v) ==
    LET key == ParseRSAPublicKeyFromPEM(v)
        fp == RSAPublicKeyFingerprint(key)
        withFirst == IF keys.first = Nil THEN [keys EXCEPT !.first = key] ELSE keys
    IN  IF key = Nil THEN keys
        ELSE IF fp.err THEN keys
        ELSE [withFirst EXCEPT !.m = MapSet(withFirst.m, fp.fingerprint, key)]

\* The loop body with keys.first overwritten by every parsed key.
parseOneKey_LastWins(keys, v) ==
    LET key == ParseRSAPublicKeyFromPEM(v)
        fp == RSAPublicKeyFingerprint(key)
        withFirst == [keys EXCEPT !.first = key]
    IN  IF key = Nil THEN keys
        ELSE IF fp.err THEN withFirst
        ELSE [withFirst EXCEPT !.m = MapSet(withFirst.m, fp.fingerprint, key)]

\* One iteration of the loop of parseVersionedKeys over candidate v.
parseOneKey(keys, v) ==
    LET key == ParseRSAPublicKeyFromPEM(v)
        fp == RSAPublicKeyFingerprint(key)
        withFirst == IF keys.first = Nil THEN [keys EXCEPT !.first = key] ELSE keys
    IN  IF key = Nil THEN keys
        ELSE IF fp.err THEN withFirst
        ELSE [withFirst EXCEPT !.m = MapSet(withFirst.m, fp.fingerprint, key)]

\* The loop of parseVersionedKeys from index i on.
RECURSIVE parseLoop(_, _, _)
parseLoop(keys, all, i) ==
    IF i > Len(all) THEN keys
    ELSE parseLoop(parseOneKey(keys, all[i]), all, i + 1)

\* parseVersionedKeys: <<>> for a nil result, else <<keys>>.
parseVersionedKeys(versioned) ==
    LET keys == parseLoop(NewKeys, GetAll(versioned), 1)
    IN  IF keys.first = Nil THEN <<>> ELSE <<keys>>

(***************************************************************************)
(* Tokens: a token string is its dot-separated segments; "" is <<>>.       *)
(***************************************************************************)
jwtAlg == "RS256"

\* Algorithms golang-jwt has a signing method registered for.
SigningMethods == {"RS256", "RS384", "HS256"}

\* The registered methods whose Verify accepts an *rsa.PublicKey.
RSAMethods == {"RS256", "RS384"}

JSONString(s) == [t |-> "string", v |-> s]
JSONNumber(s) == [t |-> "number", v |-> s]

\* A header without and with the "kid" field.
Header(alg) == [alg |-> alg]
HeaderKid(alg, kid) == [alg |-> alg, kid |-> kid]

Claims(sub) == [sub |-> sub]
ClaimsExp(sub, exp) == [sub |-> sub, exp |-> exp]
ClaimsExpNbf(sub, exp, nbf) == [sub |-> sub, exp |-> exp, nbf |-> nbf]

\* The token with header h and claims c signed by the private key of `by`
\* ("nobody": a signature no key made).
Sign(h, c, by) == <<h, c, [by |-> by, over |-> <<h, c>>]>>

\* The token Sign(h, c, by) with its claims segment replaced by c2.
Tamper(h, c, by, c2) == <<h, c2, [by |-> by, over |-> <<h, c>>]>>

EmptyToken == <<>>

\* jt.Header[JWTHeaderKeyID].(string): "" when absent or not a string.
HeaderKeyID(h) ==
    IF "kid" \in DOMAIN h /\ h.kid.t = "string" THEN h.kid.v ELSE ""

\* SigningMethod.Verify(signingString, signature, key) = nil
Verify(alg, h, c, sig, key) ==
    /\ alg \in RSAMethods
    /\ key # Nil
    /\ sig.by = key
    /\ sig.over = <<h, c>>

\* The validation without the expiry check.
ClaimsErrors_NoExp(c, t) ==
    IF "nbf" \in DOMAIN c /\ ~(t >= c.nbf) THEN {"NotValidYet"} ELSE {}

\* RegisteredClaims.Valid at time t: the validation error bits.
ClaimsErrors(c, t) ==
    (IF "exp" \in DOMAIN c /\ ~(t < c.exp) THEN {"Expired"} ELSE {})
        \cup (IF "nbf" \in DOMAIN c /\ ~(t >= c.nbf) THEN {"NotValidYet"} ELSE {})

\* The decoding with the subject left at its zero value.
AuthenticationToken_NoSubject(c) == [Subject |-> ""]

\* json decoding of the claims segment into *AuthenticationToken.
AuthenticationToken(c) == [Subject |-> c.sub]

(***************************************************************************)
(* Errors and results                                                      *)
(***************************************************************************)
ErrNil == [kind |-> "nil", text |-> "", Errors |-> {}]

ErrNoPublicKeysLoaded ==
    [kind |-> "ErrNoPublicKeysLoaded",
     text |-> "edgecontext.ValidateToken: no public keys loaded", Errors |-> {}]

ErrEmptyToken ==
    [kind |-> "ErrEmptyToken",
     text |-> "edgecontext.ValidateToken: empty JWT token", Errors |-> {}]

\* jwt.NewValidationError(text, flags) and the parser's *ValidationError.
NewValidationError(text, flags) ==
    [kind |-> "ValidationError", text |-> text, Errors |-> flags]

NilClaims == <<>>

Result(claims, err, key) == [claims |-> claims, err |-> err, key |-> key]

\* What the caller gets of it: (claims, err).
Returned(r) == [claims |-> r.claims, err |-> r.err]

NoResult == Returned(Result(NilClaims, ErrNil, Nil))

\* The parser handing Verify whichever key of the ring made the signature.
ParseWithClaims_TryAll(token, keys, t) ==
    IF Len(token) # 3
    THEN [Valid |-> FALSE, Method |-> "", Claims |-> NilClaims, key |-> Nil,
          err |-> NewValidationError("token contains an invalid number of segments",
                                     {"Malformed"})]
    ELSE LET h == token[1]
             c == token[2]
             sig == token[3]
         IN  IF "alg" \notin DOMAIN h \/ h.alg \notin SigningMethods
             THEN [Valid |-> FALSE, Method |-> "", Claims |-> NilClaims, key |-> Nil,
                   err |-> NewValidationError("signing method (alg) is unavailable.",
                                              {"Unverifiable"})]
             ELSE LET known == {keys.m[f] : f \in DOMAIN keys.m} \cup {keys.first}
                      key == IF sig.by \in known THEN sig.by
                             ELSE getKey(keys, HeaderKeyID(h))
                      flags == ClaimsErrors(c, t)
                                 \cup (IF Verify(h.alg, h, c, sig, key)
                                       THEN {} ELSE {"SignatureInvalid"})
                  IN  [Valid |-> flags = {}, Method |-> h.alg,
                       Claims |-> <<AuthenticationToken(c)>>, key |-> key,
                       err |-> IF flags = {} THEN ErrNil
                               ELSE NewValidationError("", flags)]

\* jwt.ParseWithClaims(token, &AuthenticationToken{}, keyfunc) at time t, the
\* keyfunc being keys.getKey of the header's kid: (tok, err) and the key used.
ParseWithClaims(token, keys, t) ==
    IF Len(token) # 3
    THEN [Valid |-> FALSE, Method |-> "", Claims |-> NilClaims, key |-> Nil,
          err |-> NewValidationError("token contains an invalid number of segments",
                                     {"Malformed"})]
    ELSE LET h == token[1]
             c == token[2]
             sig == token[3]
         IN  IF "alg" \notin DOMAIN h
             THEN [Valid |-> FALSE, Method |-> "", Claims |-> NilClaims, key |-> Nil,
                   err |-> NewValidationError("signing method (alg) is unspecified.",
                                              {"Unverifiable"})]
             ELSE IF h.alg \notin SigningMethods
             THEN [Valid |-> FALSE, Method |-> "", Claims |-> NilClaims, key |-> Nil,
                   err |-> NewValidationError("signing method (alg) is unavailable.",
                                              {"Unverifiable"})]
             ELSE LET key == getKey(keys, HeaderKeyID(h))
                      flags == ClaimsErrors(c, t)
                                 \cup (IF Verify(h.alg, h, c, sig, key)
                                       THEN {} ELSE {"SignatureInvalid"})
                  IN  [Valid |-> flags = {}, Method |-> h.alg,
                       Claims |-> <<AuthenticationToken(c)>>, key |-> key,
                       err |-> IF flags = {} THEN ErrNil
                               ELSE NewValidationError("", flags)]

\* ValidateToken with the empty-token check ahead of the loaded-keys check.
ValidateLoaded_EmptyFirst(keys, h, token, t) ==
    IF token = EmptyToken THEN Result(NilClaims, ErrEmptyToken, Nil)
    ELSE IF keys = 0 THEN Result(NilClaims, ErrNoPublicKeysLoaded, Nil)
    ELSE LET p == ParseWithClaims(token, h[keys], t)
         IN  IF p.err # ErrNil THEN Result(NilClaims, p.err, p.key)
             ELSE IF p.Method # jwtAlg
             THEN Result(NilClaims, NewValidationError("wrong signing method", {}), p.key)
             ELSE Result(p.Claims, ErrNil, p.key)

\* ValidateToken without the special handling of the empty token.
ValidateLoaded_NoEmptyCheck(keys, h, token, t) ==
    IF keys = 0 THEN Result(NilClaims, ErrNoPublicKeysLoaded, Nil)
    ELSE LET p == ParseWithClaims(token, h[keys], t)
         IN  IF p.err # ErrNil THEN Result(NilClaims, p.err, p.key)
             ELSE IF p.Method # jwtAlg
             THEN Result(NilClaims, NewValidationError("wrong signing method", {}), p.key)
             ELSE Result(p.Claims, ErrNil, p.key)

\* The call returning the decoded claims along with the signing method error.
ValidateLoaded_ClaimsWithError(keys, h, token, t) ==
    IF keys = 0 THEN Result(NilClaims, ErrNoPublicKeysLoaded, Nil)
    ELSE IF token = EmptyToken THEN Result(NilClaims, ErrEmptyToken, Nil)
    ELSE LET p == ParseWithClaims(token, h[keys], t)
         IN  IF p.err # ErrNil THEN Result(NilClaims, p.err, p.key)
             ELSE IF ~p.Valid
             THEN Result(NilClaims, NewValidationError("invalid token", {}), p.key)
             ELSE IF p.Method # jwtAlg
             THEN Result(p.Claims, NewValidationError("wrong signing method", {}), p.key)
             ELSE IF Len(p.Claims) = 1
             THEN Result(p.Claims, ErrNil, p.key)
             ELSE Result(NilClaims, NewValidationError("invalid token type", {}), p.key)

\* Impl.ValidateToken from line 53 on, keys being what keysValue.Load returned
\* (0: nothing stored) and h the heap the pointer is read through.
ValidateLoaded(keys, h, token, t) ==
    IF keys = 0 THEN Result(NilClaims, ErrNoPublicKeysLoaded, Nil)
    ELSE IF token = EmptyToken THEN Result(NilClaims, ErrEmptyToken, Nil)
    ELSE LET p == ParseWithClaims(token, h[keys], t)
         IN  IF p.err # ErrNil THEN Result(NilClaims, p.err, p.key)
             ELSE IF ~p.Valid
             THEN Result(NilClaims, NewValidationError("invalid token", {}), p.key)
             ELSE IF p.Method # jwtAlg
             THEN Result(NilClaims, NewValidationError("wrong signing method", {}), p.key)
             ELSE IF Len(p.Claims) = 1
             THEN Result(p.Claims, ErrNil, p.key)
             ELSE Result(NilClaims, NewValidationError("invalid token type", {}), p.key)

\* The signing method whose Verify the call runs: the parser takes it from
\* the token's header (token.Method.Verify); "" when the call returns earlier.
VerifyMethod(keys, h, token, t) ==
    IF keys = 0 \/ token = EmptyToken THEN ""
    ELSE ParseWithClaims(token, h[keys], t).Method

(***************************************************************************)
(* The heap of keysType objects                                            *)
(***************************************************************************)
\* The pointers held by the store, the handler and the callers.
Live(kv, rk, vk) == ({kv, rk} \cup {vk[v] : v \in Validators}) \ {0}

\* Go's garbage collection: an object nothing points to is gone.
Collect(h, live) == [id \in DOMAIN h \cap live |-> h[id]]

HeapSet(h, id, keys) == [i \in DOMAIN h \cup {id} |-> IF i = id THEN keys ELSE h[i]]

(***************************************************************************)
(* Initial state: Init(cfg) has run, the store has delivered nothing yet.  *)
(***************************************************************************)
NoVersioned == VersionedSecret(NoSecret, NoSecret, NoSecret)

Init ==
    /\ heap = [id \in {} |-> NewKeys]
    /\ keysValue = 0
    /\ nrot = 0
    /\ rpc = "idle"
    /\ rsec = NoVersioned
    /\ rall = <<>>
    /\ ri = 1
    /\ rkeys = 0
    /\ rnext = 0
    /\ vpc = [v \in Validators |-> "idle"]
    /\ vtoken = [v \in Validators |-> EmptyToken]
    /\ vkeys = [v \in Validators |-> 0]
    /\ vkey = [v \in Validators |-> Nil]
    /\ vmethod = [v \in Validators |-> ""]
    /\ vresult = [v \in Validators |-> NoResult]
    /\ now = 0

(***************************************************************************)
(* Impl.validatorMiddleware, line by line                                  *)
(***************************************************************************)
\* The error return emptying keysValue.
GetVersionedSecretFails_ClearsStore ==
    /\ rpc = "idle"
    /\ nrot < MaxRotations
    /\ nrot' = nrot + 1
    /\ rpc' = "next"
    /\ rsec' = NoVersioned
    /\ rall' = <<>>
    /\ ri' = 1
    /\ rkeys' = 0
    /\ rnext' = 0
    /\ keysValue' = 0
    /\ heap' = Collect(heap, Live(keysValue', rkeys', vkeys))
    /\ UNCHANGED now
    /\ UNCHANGED valVars

\* The error return leaving the handler without the call of next.
GetVersionedSecretFails_NoNext ==
    /\ rpc = "idle"
    /\ nrot < MaxRotations
    /\ nrot' = nrot + 1
    /\ rpc' = "idle"
    /\ rsec' = NoVersioned
    /\ rall' = <<>>
    /\ ri' = 1
    /\ rkeys' = 0
    /\ rnext' = 0
    /\ UNCHANGED <<heap, keysValue, now>>
    /\ UNCHANGED valVars

\* sec.GetVersionedSecret(path) returns an error: log and return.
GetVersionedSecretFails ==
    /\ rpc = "idle"
    /\ nrot < MaxRotations
    /\ nrot' = nrot + 1
    /\ rpc' = "next"
    /\ rsec' = NoVersioned
    /\ rall' = <<>>
    /\ ri' = 1
    /\ rkeys' = 0
    /\ rnext' = 0
    /\ UNCHANGED <<heap, keysValue, now>>
    /\ UNCHANGED valVars

\* parseVersionedKeys storing the new keysType before filling it.
ParseStart_Publish(versioned) ==
    /\ rpc = "idle"
    /\ nrot < MaxRotations
    /\ nrot' = nrot + 1
    /\ rpc' = "parse"
    /\ rsec' = versioned
    /\ rall' = GetAll(versioned)
    /\ ri' = 1
    /\ rkeys' = nrot + 1
    /\ rnext' = 0
    /\ keysValue' = nrot + 1
    /\ heap' = Collect(HeapSet(heap, nrot + 1, NewKeys), Live(keysValue', rkeys', vkeys))
    /\ UNCHANGED now
    /\ UNCHANGED valVars

\* parseVersionedKeys filling a copy of the stored keysType instead of an
\* empty one.
ParseStart_Merge(versioned) ==
    /\ rpc = "idle"
    /\ nrot < MaxRotations
    /\ nrot' = nrot + 1
    /\ rpc' = "parse"
    /\ rsec' = versioned
    /\ rall' = GetAll(versioned)
    /\ ri' = 1
    /\ rkeys' = nrot + 1
    /\ rnext' = 0
    /\ heap' = HeapSet(heap, nrot + 1, IF keysValue # 0 THEN heap[keysValue] ELSE NewKeys)
    /\ UNCHANGED <<keysValue, now>>
    /\ UNCHANGED valVars

\* sec.GetVersionedSecret(path) returns versioned; parseVersionedKeys starts:
\* all := versioned.GetAll(); keys := &keysType{m: make(...)}.
ParseStart(versioned) ==
    /\ rpc = "idle"
    /\ nrot < MaxRotations
    /\ nrot' = nrot + 1
    /\ rpc' = "parse"
    /\ rsec' = versioned
    /\ rall' = GetAll(versioned)
    /\ ri' = 1
    /\ rkeys' = nrot + 1
    /\ rnext' = 0
    /\ heap' = HeapSet(heap, nrot + 1, NewKeys)
    /\ UNCHANGED <<keysValue, now>>
    /\ UNCHANGED valVars

\* The loop left at the first candidate that does not parse.
ParseKey_AbortOnBadKey ==
    /\ rpc = "parse"
    /\ ri <= Len(rall)
    /\ heap' = [heap EXCEPT ![rkeys] = parseOneKey(heap[rkeys], rall[ri])]
    /\ ri' = IF ParseRSAPublicKeyFromPEM(rall[ri]) = Nil THEN Len(rall) + 1 ELSE ri + 1
    /\ UNCHANGED <<keysValue, nrot, rpc, rsec, rall, rkeys, rnext, now>>
    /\ UNCHANGED valVars

\* One iteration of the loop over all.
ParseKey ==
    /\ rpc = "parse"
    /\ ri <= Len(rall)
    /\ heap' = [heap EXCEPT ![rkeys] = parseOneKey(heap[rkeys], rall[ri])]
    /\ ri' = ri + 1
    /\ UNCHANGED <<keysValue, nrot, rpc, rsec, rall, rkeys, rnext, now>>
    /\ UNCHANGED valVars

\* parseVersionedKeys returning keys whether or not a key was parsed.
ParseReturn_NoNilCheck ==
    /\ rpc = "parse"
    /\ ri > Len(rall)
    /\ rpc' = "store"
    /\ UNCHANGED <<heap, keysValue, nrot, rsec, rall, ri, rkeys, rnext, now>>
    /\ UNCHANGED valVars

\* After the loop: return nil when keys.first is nil, else keys.
ParseReturn ==
    /\ rpc = "parse"
    /\ ri > Len(rall)
    /\ rpc' = "store"
    /\ rkeys' = IF heap[rkeys].first = Nil THEN 0 ELSE rkeys
    /\ heap' = Collect(heap, Live(keysValue, rkeys', vkeys))
    /\ UNCHANGED <<keysValue, nrot, rsec, rall, ri, rnext, now>>
    /\ UNCHANGED valVars

\* The middleware storing whatever parseVersionedKeys returned.
StoreKeys_NoNilCheck ==
    /\ rpc = "store"
    /\ rpc' = "next"
    /\ keysValue' = rkeys
    /\ rkeys' = 0
    /\ heap' = Collect(heap, Live(keysValue', rkeys', vkeys))
    /\ UNCHANGED <<nrot, rsec, rall, ri, rnext, now>>
    /\ UNCHANGED valVars

\* if keys != nil { impl.keysValue.Store(keys) }
StoreKeys ==
    /\ rpc = "store"
    /\ rpc' = "next"
    /\ keysValue' = IF rkeys # 0 THEN rkeys ELSE keysValue
    /\ rkeys' = 0
    /\ heap' = Collect(heap, Live(keysValue', rkeys', vkeys))
    /\ UNCHANGED <<nrot, rsec, rall, ri, rnext, now>>
    /\ UNCHANGED valVars

\* defer next(sec); the handler returns.
CallNext ==
    /\ rpc = "next"
    /\ rpc' = "idle"
    /\ rnext' = rnext + 1
    /\ rsec' = NoVersioned
    /\ rall' = <<>>
    /\ ri' = 1
    /\ UNCHANGED <<heap, keysValue, nrot, rkeys, now>>
    /\ UNCHANGED valVars

(***************************************************************************)
(* Impl.ValidateToken, line by line                                        *)
(***************************************************************************)
\* keys, ok := impl.keysValue.Load().(*keysType)
LoadKeys(v, token) ==
    /\ vpc[v] \in {"idle", "done"}
    /\ vpc' = [vpc EXCEPT ![v] = "loaded"]
    /\ vtoken' = [vtoken EXCEPT ![v] = token]
    /\ vkeys' = [vkeys EXCEPT ![v] = keysValue]
    /\ vkey' = [vkey EXCEPT ![v] = Nil]
    /\ vmethod' = [vmethod EXCEPT ![v] = ""]
    /\ vresult' = [vresult EXCEPT ![v] = NoResult]
    /\ UNCHANGED <<heap, keysValue, now>>
    /\ UNCHANGED rotVars

\* The rest of the call reading impl.keysValue again.
FinishValidate_Reload(v) ==
    /\ vpc[v] = "loaded"
    /\ LET r == ValidateLoaded(keysValue, heap, vtoken[v], now)
       IN  /\ vresult' = [vresult EXCEPT ![v] = Returned(r)]
           /\ vkey' = [vkey EXCEPT ![v] = r.key]
    /\ vmethod' = [vmethod EXCEPT ![v] = VerifyMethod(keysValue, heap, vtoken[v], now)]
    /\ vpc' = [vpc EXCEPT ![v] = "done"]
    /\ vkeys' = [vkeys EXCEPT ![v] = 0]
    /\ heap' = Collect(heap, Live(keysValue, rkeys, vkeys'))
    /\ UNCHANGED <<keysValue, vtoken, now>>
    /\ UNCHANGED rotVars

\* The rest of the call held back while the handler is between its steps.
FinishValidate_WaitsForRotation(v) ==
    /\ rpc = "idle"
    /\ vpc[v] = "loaded"
    /\ LET r == ValidateLoaded(vkeys[v], heap, vtoken[v], now)
       IN  /\ vresult' = [vresult EXCEPT ![v] = Returned(r)]
           /\ vkey' = [vkey EXCEPT ![v] = r.key]
    /\ vmethod' = [vmethod EXCEPT ![v] = VerifyMethod(vkeys[v], heap, vtoken[v], now)]
    /\ vpc' = [vpc EXCEPT ![v] = "done"]
    /\ vkeys' = [vkeys EXCEPT ![v] = 0]
    /\ heap' = Collect(heap, Live(keysValue, rkeys, vkeys'))
    /\ UNCHANGED <<keysValue, vtoken, now>>
    /\ UNCHANGED rotVars

\* The rest of the call, on the loaded pointer; the call returns.
FinishValidate(v) ==
    /\ vpc[v] = "loaded"
    /\ LET r == ValidateLoaded(vkeys[v], heap, vtoken[v], now)
       IN  /\ vresult' = [vresult EXCEPT ![v] = Returned(r)]
           /\ vkey' = [vkey EXCEPT ![v] = r.key]
    /\ vmethod' = [vmethod EXCEPT ![v] = VerifyMethod(vkeys[v], heap, vtoken[v], now)]
    /\ vpc' = [vpc EXCEPT ![v] = "done"]
    /\ vkeys' = [vkeys EXCEPT ![v] = 0]
    /\ heap' = Collect(heap, Live(keysValue, rkeys, vkeys'))
    /\ UNCHANGED <<keysValue, vtoken, now>>
    /\ UNCHANGED rotVars

(***************************************************************************)
(* Whole operations                                                        *)
(***************************************************************************)
\* One whole handler invocation whose GetVersionedSecret fails.
RotateFails ==
    /\ rpc = "idle"
    /\ nrot < MaxRotations
    /\ nrot' = nrot + 1
    /\ rnext' = 1
    /\ UNCHANGED <<heap, keysValue, rpc, rsec, rall, ri, rkeys, now>>
    /\ UNCHANGED valVars

\* The invocation emptying keysValue when no key of versioned parses.
Rotate_ClearsOnFailure(versioned) ==
    /\ rpc = "idle"
    /\ nrot < MaxRotations
    /\ nrot' = nrot + 1
    /\ rnext' = 1
    /\ LET keys == parseVersionedKeys(versioned)
       IN  IF keys # <<>>
           THEN /\ keysValue' = nrot + 1
                /\ heap' = Collect(HeapSet(heap, nrot + 1, keys[1]),
                                   Live(keysValue', rkeys, vkeys))
           ELSE /\ keysValue' = 0
                /\ heap' = Collect(heap, Live(keysValue', rkeys, vkeys))
    /\ UNCHANGED <<rpc, rsec, rall, ri, rkeys, now>>
    /\ UNCHANGED valVars

\* One whole handler invocation that gets versioned.
Rotate(versioned) ==
    /\ rpc = "idle"
    /\ nrot < MaxRotations
    /\ nrot' = nrot + 1
    /\ rnext' = 1
    /\ LET keys == parseVersionedKeys(versioned)
       IN  IF keys # <<>>
           THEN /\ keysValue' = nrot + 1
                /\ heap' = Collect(HeapSet(heap, nrot + 1, keys[1]),
                                   Live(keysValue', rkeys, vkeys))
           ELSE UNCHANGED <<heap, keysValue>>
    /\ UNCHANGED <<rpc, rsec, rall, ri, rkeys, now>>
    /\ UNCHANGED valVars

\* The call writing the key it resolved into the map of the stored keysType.
ValidateToken_CachesKey(v, token) ==
    /\ vpc[v] \in {"idle", "done"}
    /\ LET r == ValidateLoaded(keysValue, heap, token, now)
       IN  /\ vresult' = [vresult EXCEPT ![v] = Returned(r)]
           /\ vkey' = [vkey EXCEPT ![v] = r.key]
           /\ heap' = IF r.key # Nil
                      THEN [heap EXCEPT ![keysValue].m =
                                MapSet(@, HeaderKeyID(token[1]), r.key)]
                      ELSE heap
    /\ vmethod' = [vmethod EXCEPT ![v] = VerifyMethod(keysValue, heap, token, now)]
    /\ vpc' = [vpc EXCEPT ![v] = "done"]
    /\ vtoken' = [vtoken EXCEPT ![v] = token]
    /\ UNCHANGED <<keysValue, vkeys, now>>
    /\ UNCHANGED rotVars

\* One whole ValidateToken(token) call.
ValidateToken(v, token) ==
    /\ vpc[v] \in {"idle", "done"}
    /\ LET r == ValidateLoaded(keysValue, heap, token, now)
       IN  /\ vresult' = [vresult EXCEPT ![v] = Returned(r)]
           /\ vkey' = [vkey EXCEPT ![v] = r.key]
    /\ vmethod' = [vmethod EXCEPT ![v] = VerifyMethod(keysValue, heap, token, now)]
    /\ vpc' = [vpc EXCEPT ![v] = "done"]
    /\ vtoken' = [vtoken EXCEPT ![v] = token]
    /\ UNCHANGED <<heap, keysValue, vkeys, now>>
    /\ UNCHANGED rotVars

\* Time passes.
Tick ==
    /\ now < MaxNow
    /\ now' = now + 1
    /\ UNCHANGED <<heap, keysValue>>
    /\ UNCHANGED rotVars
    /\ UNCHANGED valVars

(***************************************************************************)
(* Inputs                                                                  *)
(***************************************************************************)
\* Every versioned secret the store may deliver: a parseable or unparseable
\* current key, and previous and next keys that may also be missing.
Materials ==
    {VersionedSecret(c, p, n) :
        c \in {invalidKey} \cup {PEM(k) : k \in Keys \cup UnencodableKeys},
        p \in {NoSecret, invalidKey} \cup {PEM(k) : k \in Keys \cup UnencodableKeys},
        n \in {NoSecret, invalidKey} \cup {PEM(k) : k \in Keys \cup UnencodableKeys}}

\* The versioned secrets delivered between whole ValidateToken calls: the
\* fixture's triple K1, K2, K3 with any of its entries unparseable or missing.
SeqMaterials ==
    {VersionedSecret(c, p, n) :
        c \in {invalidKey} \cup {PEM(k) : k \in Keys},
        p \in {NoSecret, PEM("K1"), PEM("K2")},
        n \in {NoSecret, PEM("K3")}}

\* The versioned secrets delivered while ValidateToken calls are in flight.
ConcMaterials ==
    {VersionedSecret(c, p, NoSecret) :
        c \in {invalidKey, PEM("K1"), PEM("K2")},
        p \in {NoSecret, PEM("K2")}}

Signers == Keys \cup {"nobody"}

\* An expiry no clock value of the model reaches.
Late == MaxNow + 1

KidValues ==
    {JSONString(FingerprintSHA256(k)) : k \in Keys}
        \cup {JSONString(""), JSONString("SHA256:unknown"), JSONNumber("7")}

Headers(alg) == {Header(alg)} \cup {HeaderKid(alg, kid) : kid \in KidValues}

\* RS256 tokens with every key id and signer, not expired.
KeyTokens ==
    {Sign(h, ClaimsExp("t2_example", Late), by) : h \in Headers(jwtAlg), by \in Signers}
        \cup {Sign(h, ClaimsExp("t2_other", Late), by) :
                h \in {Header(jwtAlg),
                       HeaderKid(jwtAlg, JSONString(FingerprintSHA256("K2")))},
                by \in Signers}

\* Tokens naming another algorithm.
AlgTokens ==
    {Sign(h, ClaimsExp("t2_example", Late), by) :
        h \in UNION {{Header(alg), HeaderKid(alg, JSONString(FingerprintSHA256("K2")))} :
                        alg \in {"RS384", "HS256", "XX"}},
        by \in {"nobody", "K1", "K2"}}

\* RS256 tokens with and without expiry and not-before claims.
TimeTokens ==
    {Sign(h, c, by) :
        h \in {Header(jwtAlg), HeaderKid(jwtAlg, JSONString(FingerprintSHA256("K2")))},
        c \in {Claims("t2_example"), ClaimsExp("t2_example", 0),
               ClaimsExp("t2_example", 1),
               ClaimsExpNbf("t2_example", Late, 1), ClaimsExpNbf("t2_example", 1, 1)},
        by \in {"K1", "K2"}}

\* Tokens that are no well-formed signed token.
BrokenTokens ==
    {EmptyToken,
     <<Header(jwtAlg), Claims("t2_example")>>,
     Sign([typ |-> "JWT"], Claims("t2_example"), "K1"),
     Tamper(Header(jwtAlg), ClaimsExp("t2_example", Late), "K1",
            ClaimsExp("t2_other", Late))}

Tokens == KeyTokens \cup AlgTokens \cup TimeTokens \cup BrokenTokens

\* The tokens presented while a rotation may be running.
ConcTokens ==
    {EmptyToken,
     Sign(Header(jwtAlg), ClaimsExp("t2_example", Late), "K1"),
     Sign(HeaderKid(jwtAlg, JSONString(FingerprintSHA256("K2"))),
          ClaimsExp("t2_example", Late), "K2")}

\* The tokens presented by the callers whose progress is observed.
ReadTokens ==
    {EmptyToken, Sign(Header(jwtAlg), ClaimsExp("t2_example", Late), "K1")}

(***************************************************************************)
(* Specifications                                                          *)
(***************************************************************************)
Next ==
    \/ GetVersionedSecretFails
    \/ \E versioned \in ConcMaterials : ParseStart(versioned)
    \/ ParseKey
    \/ ParseReturn
    \/ StoreKeys
    \/ CallNext
    \/ \E v \in Validators, token \in ConcTokens : LoadKeys(v, token)
    \/ \E v \in Validators : FinishValidate(v)

Spec == Init /\ [][Next]_vars

\* The handler and the callers interleaved line by line, on fewer tokens.
NextRead ==
    \/ GetVersionedSecretFails
    \/ \E versioned \in ConcMaterials : ParseStart(versioned)
    \/ ParseKey
    \/ ParseReturn
    \/ StoreKeys
    \/ CallNext
    \/ \E v \in Validators, token \in ReadTokens : LoadKeys(v, token)
    \/ \E v \in Validators : FinishValidate(v)

SpecRead == Init /\ [][NextRead]_vars

NextRot ==
    \/ GetVersionedSecretFails
    \/ \E versioned \in Materials : ParseStart(versioned)
    \/ ParseKey
    \/ ParseReturn
    \/ StoreKeys
    \/ CallNext

SpecRot == Init /\ [][NextRot]_vars

NextSeq ==
    \/ RotateFails
    \/ \E versioned \in SeqMaterials : Rotate(versioned)
    \/ \E token \in Tokens : ValidateToken(1, token)
    \/ Tick

SpecSeq == Init /\ [][NextSeq]_vars

(***************************************************************************)
(* Properties                                                              *)
(***************************************************************************)
\* The keys of sequence all that parse, in order of position.
ParseableAt(all) == {i \in 1..Len(all) : ParseRSAPublicKeyFromPEM(all[i]) # Nil}

\* The first parseable entry of all, Nil when there is none.
FirstParseable(all) ==
    IF ParseableAt(all) = {} THEN Nil
    ELSE ParseRSAPublicKeyFromPEM(
             all[CHOOSE i \in ParseableAt(all) : \A j \in ParseableAt(all) : i <= j])

\* The handler is running on delivered material none of whose keys parses.
InZeroKeyRotation ==
    /\ rpc # "idle"
    /\ rsec # NoVersioned
    /\ ParseableAt(GetAll(rsec)) = {}

\* resolve(keyID) as the specification words it, on the header's key id.
Resolved(ring, h) ==
    IF /\ "kid" \in DOMAIN h
       /\ h.kid.t = "string"
       /\ h.kid.v \in DOMAIN ring.m
       /\ ring.m[h.kid.v] # Nil
    THEN ring.m[h.kid.v]
    ELSE ring.first

\* The step is a whole ValidateToken call of caller 1.
ValidateStep == ValidateToken(1, vtoken'[1])

\* token is an RS256 token whose signature by is over its own header and
\* claims and whose temporal claims hold at time t.
GoodRS256(token, t) ==
    /\ Len(token) = 3
    /\ "alg" \in DOMAIN token[1]
    /\ token[1].alg = jwtAlg
    /\ token[3].over = <<token[1], token[2]>>
    /\ ClaimsErrors(token[2], t) = {}

\* The keys of a ring: its fallback and its indexed keys.
RingKeys(ring) == {ring.m[f] : f \in DOMAIN ring.m} \cup {ring.first}

\* C1: a ValidateToken call made while nothing was ever stored in keysValue
\* fails with ErrNoPublicKeysLoaded and returns nil claims, for every token.
C1_NoKeysLoaded ==
    \A v \in Validators :
        (keysValue = 0 /\ vpc[v] = "done") =>
            /\ vresult[v].err = ErrNoPublicKeysLoaded
            /\ vresult[v].claims = NilClaims

\* C1 witness: a well-formed signed token was rejected with no keys loaded,
\* after a handler invocation that installed nothing.
C1_Witness ==
    /\ keysValue = 0
    /\ nrot > 0
    /\ vpc[1] = "done"
    /\ Len(vtoken[1]) = 3
    /\ vresult[1].err = ErrNoPublicKeysLoaded

\* C2 as claimed: ValidateToken("") fails with ErrEmptyToken in every state.
C2_Original ==
    \A v \in Validators :
        (vpc[v] = "done" /\ vtoken[v] = EmptyToken) => vresult[v].err = ErrEmptyToken

\* C2 amended: ValidateToken("") called while a keysType is stored fails with
\* ErrEmptyToken and nil claims, and no call with a non-empty token, malformed
\* or not, returns ErrEmptyToken.
C2_EmptyTokenWhenLoaded ==
    [][ValidateStep =>
          /\ (vtoken'[1] = EmptyToken /\ keysValue # 0) =>
                 /\ vresult'[1].err = ErrEmptyToken
                 /\ vresult'[1].claims = NilClaims
          /\ vtoken'[1] # EmptyToken => vresult'[1].err.kind # "ErrEmptyToken"
          /\ (Len(vtoken'[1]) \in {1, 2} /\ keysValue # 0) =>
                 vresult'[1].err.Errors = {"Malformed"}
      ]_vars

\* C2 witness: the empty token was rejected with ErrEmptyToken.
C2_Witness ==
    /\ vpc[1] = "done"
    /\ vtoken[1] = EmptyToken
    /\ vresult[1].err = ErrEmptyToken

\* C3: while the handler runs on material with zero parseable keys, no step
\* changes keysValue or the stored keysType, and every ValidateToken call
\* returns what it returned before that step.
C3_ZeroKeysKeepsStore ==
    [][(InZeroKeyRotation \/ InZeroKeyRotation') =>
          /\ keysValue' = keysValue
          /\ keysValue # 0 =>
                 (keysValue \in DOMAIN heap' /\ heap'[keysValue] = heap[keysValue])
          /\ \A token \in ConcTokens :
                 ValidateLoaded(keysValue', heap', token, now')
                     = ValidateLoaded(keysValue, heap, token, now)
      ]_vars

\* C3 witness: the handler finished parsing material without a parseable key
\* while a keysType is stored and a caller holds it.
C3_Witness ==
    /\ rpc = "next"
    /\ InZeroKeyRotation
    /\ keysValue # 0
    /\ \E v \in Validators : vpc[v] = "loaded" /\ vkeys[v] = keysValue

\* C4: the keysType a reader can reach, through keysValue or through the
\* pointer it loaded, is never the one parseVersionedKeys is still filling and
\* is always the complete result of parsing one versioned secret.
C4_NoPartialKeyRing ==
    \A id \in ({keysValue} \cup {vkeys[v] : v \in Validators}) \ {0} :
        /\ id \in DOMAIN heap
        /\ rpc = "parse" => id # rkeys
        /\ \E versioned \in ConcMaterials : parseVersionedKeys(versioned) = <<heap[id]>>

\* C4 witness: a caller holds a loaded keysType while the handler has parsed
\* one key of two into a new one.
C4_Witness ==
    /\ rpc = "parse"
    /\ ri = 2
    /\ Len(rall) = 2
    /\ heap[rkeys].first # Nil
    /\ \E v \in Validators : vpc[v] = "loaded" /\ vkeys[v] # 0

\* C5: a stored or loaded keysType never changes, and a call finishes with the
\* key and the result that the keysType it loaded at its start gives, whatever
\* has been stored since.
C5_SnapshotUsed ==
    [][/\ \A id \in ({keysValue} \cup {vkeys[v] : v \in Validators}) \ {0} :
              id \in DOMAIN heap' => heap'[id] = heap[id]
       /\ \A v \in Validators :
              (vpc[v] = "loaded" /\ vpc'[v] = "done") =>
                  LET r == ValidateLoaded(vkeys[v], heap, vtoken[v], now)
                  IN  /\ vresult'[v].err = r.err
                      /\ vresult'[v].claims = r.claims
                      /\ vkey'[v] = r.key
      ]_vars

\* C5 witness: a call is in flight on a keysType that a rotation has replaced
\* in keysValue since the call loaded it.
C5_Witness ==
    \E v \in Validators :
        /\ vpc[v] = "loaded"
        /\ vkeys[v] # 0
        /\ keysValue # vkeys[v]
        /\ ValidateLoaded(vkeys[v], heap, vtoken[v], now).err
               # ValidateLoaded(keysValue, heap, vtoken[v], now).err

\* C6: when some entry of the candidate sequence parses, parseVersionedKeys
\* returns a keysType whose first is the first parseable entry.
C6_FirstParseableIsFallback ==
    (rpc = "store" /\ FirstParseable(rall) # Nil) =>
        /\ rkeys # 0
        /\ heap[rkeys].first = FirstParseable(rall)

\* C6 witness: parseVersionedKeys returned on three candidates of which only
\* the second parses.
C6_Witness ==
    /\ rpc = "store"
    /\ Len(rall) = 3
    /\ ParseableAt(rall) = {2}
    /\ rkeys # 0

\* C7: when no entry of the candidate sequence parses, parseVersionedKeys
\* returns nil.
C7_NoParseableIsNil ==
    (rpc = "store" /\ FirstParseable(rall) = Nil) => rkeys = 0

\* C7 witness: parseVersionedKeys returned nil on three unparseable candidates.
C7_Witness ==
    /\ rpc = "store"
    /\ Len(rall) = 3
    /\ ParseableAt(rall) = {}
    /\ rkeys = 0

\* C8: in every call that reaches the keyfunc, the key handed to the parser is
\* m[kid] when the header's kid is a string indexed in m, and first otherwise
\* (kid absent, not a string, empty or unknown); it is never nil, and a token
\* signed by first with such a kid is accepted.
C8_ResolveFallsBack ==
    [][(/\ ValidateStep
        /\ keysValue # 0
        /\ Len(vtoken'[1]) = 3
        /\ "alg" \in DOMAIN vtoken'[1][1]
        /\ vtoken'[1][1].alg \in SigningMethods) =>
          LET ring == heap[keysValue]
              token == vtoken'[1]
          IN  /\ vkey'[1] = Resolved(ring, token[1])
              /\ vkey'[1] \in Keys
              /\ (GoodRS256(token, now) /\ token[3].by = ring.first
                    /\ HeaderKeyID(token[1]) \notin DOMAIN ring.m) =>
                     vresult'[1].err = ErrNil
      ]_vars

\* C8 witness: a token whose kid is a number, signed by a key, was accepted.
C8_Witness ==
    /\ vpc[1] = "done"
    /\ Len(vtoken[1]) = 3
    /\ "kid" \in DOMAIN vtoken[1][1]
    /\ vtoken[1][1].kid.t = "number"
    /\ vkey[1] \in Keys
    /\ vresult[1].err = ErrNil

\* C9 as claimed: a well-signed RS256 token with valid temporal claims whose
\* signer's public key is anywhere in the stored keysType is accepted.
C9_Original ==
    [][(/\ ValidateStep
        /\ keysValue # 0
        /\ GoodRS256(vtoken'[1], now)
        /\ vtoken'[1][3].by \in RingKeys(heap[keysValue])) =>
          /\ vresult'[1].err = ErrNil
          /\ vresult'[1].claims = <<[Subject |-> vtoken'[1][2].sub]>>
      ]_vars

\* C9 amended: a well-signed RS256 token with valid temporal claims whose
\* signer's public key is the one the stored keysType resolves for the token's
\* kid is accepted and its claims carry the signed subject; signed by any
\* other key, in the keysType or not, it is rejected as SignatureInvalid.
C9_RoundTrip ==
    [][(/\ ValidateStep
        /\ keysValue # 0
        /\ GoodRS256(vtoken'[1], now)) =>
          IF vtoken'[1][3].by = Resolved(heap[keysValue], vtoken'[1][1])
          THEN /\ vresult'[1].err = ErrNil
               /\ vresult'[1].claims = <<[Subject |-> vtoken'[1][2].sub]>>
          ELSE /\ vresult'[1].err.Errors = {"SignatureInvalid"}
               /\ vresult'[1].claims = NilClaims
      ]_vars

\* C9 witness: a token signed by K2 naming K2's fingerprint was accepted with
\* the subject "t2_other".
C9_Witness ==
    /\ vpc[1] = "done"
    /\ Len(vtoken[1]) = 3
    /\ vtoken[1][3].by = "K2"
    /\ HeaderKeyID(vtoken[1][1]) = FingerprintSHA256("K2")
    /\ vresult[1].err = ErrNil
    /\ vresult[1].claims = <<[Subject |-> "t2_other"]>>

\* The fixture's all-valid versioned secret and the keysType it parses to.
AllValid == VersionedSecret(PEM("K1"), PEM("K2"), PEM("K3"))

ThreeKeyRing ==
    [first |-> "K1",
     m |-> [f \in {FingerprintSHA256(k) : k \in Keys} |->
               CHOOSE k \in Keys : FingerprintSHA256(k) = f]]

\* A token signed by K2 without a kid, and one naming K2's fingerprint.
K2NoKid == Sign(Header(jwtAlg), ClaimsExp("t2_example", Late), "K2")

K2WithKid ==
    Sign(HeaderKid(jwtAlg, JSONString(FingerprintSHA256("K2"))),
         ClaimsExp("t2_example", Late), "K2")

\* C10: a rotation with current K1, previous K2, next K3 stores a keysType
\* with first K1 and the three fingerprints; on it a K2-signed token naming
\* K2's fingerprint is accepted, and a K2-signed token without kid is verified
\* with K1 only and rejected as SignatureInvalid.
C10_ThreeKeys ==
    [][/\ Rotate(AllValid) =>
              /\ keysValue' # 0
              /\ heap'[keysValue'] = ThreeKeyRing
              /\ Cardinality(DOMAIN heap'[keysValue'].m) = 3
       /\ (ValidateStep /\ keysValue # 0 /\ heap[keysValue] = ThreeKeyRing) =>
              /\ vtoken'[1] = K2WithKid =>
                     (vkey'[1] = "K2" /\ vresult'[1].err = ErrNil)
              /\ vtoken'[1] = K2NoKid =>
                     /\ vkey'[1] = "K1"
                     /\ vresult'[1].err.Errors = {"SignatureInvalid"}
                     /\ vresult'[1].claims = NilClaims
      ]_vars

\* C10 witness: with the three-key keysType stored, the K2-signed token
\* without kid was verified with K1 and rejected.
C10_Witness ==
    /\ keysValue # 0
    /\ heap[keysValue] = ThreeKeyRing
    /\ vpc[1] = "done"
    /\ vtoken[1] = K2NoKid
    /\ vkey[1] = "K1"
    /\ vresult[1].err.Errors = {"SignatureInvalid"}

\* The keys of all that parse and whose fingerprint can be computed.
IndexableKeys(all) ==
    {ParseRSAPublicKeyFromPEM(all[i]) : i \in ParseableAt(all)} \ UnencodableKeys

\* C11: the map of the keysType parseVersionedKeys returns has exactly the
\* entries fingerprint(k) -> k, one for each distinct candidate k that parses
\* and has a fingerprint, wherever unparseable candidates stand.
C11_MapIsParsedKeys ==
    (rpc = "store" /\ rkeys # 0) =>
        LET m == heap[rkeys].m
            ks == IndexableKeys(rall)
        IN  /\ DOMAIN m = {FingerprintSHA256(k) : k \in ks}
            /\ \A k \in ks : m[FingerprintSHA256(k)] = k
            /\ Cardinality(DOMAIN m) = Cardinality(ks)

\* C11 witness: of an unparseable current, a valid previous and an unparseable
\* next key, the returned keysType indexes the previous key alone and has it
\* as first.
C11_Witness ==
    /\ rpc = "store"
    /\ rkeys # 0
    /\ rsec = VersionedSecret(invalidKey, PEM("K2"), invalidKey)
    /\ Cardinality(DOMAIN heap[rkeys].m) = 1
    /\ heap[rkeys].first = "K2"
    /\ heap[rkeys].m[FingerprintSHA256("K2")] = "K2"

\* token is a three-segment token whose header names an algorithm other than
\* jwtAlg.
NamesOtherAlg(token) ==
    /\ Len(token) = 3
    /\ "alg" \in DOMAIN token[1]
    /\ token[1].alg # jwtAlg

\* C12: with keys loaded, every ValidateToken call on a token whose header
\* names an algorithm other than RS256 returns the "wrong signing method"
\* error of the algorithm check and nil claims, whatever its signature.
C12_Original ==
    [][(ValidateStep /\ keysValue # 0 /\ NamesOtherAlg(vtoken'[1])) =>
           /\ vresult'[1].err = NewValidationError("wrong signing method", {})
           /\ vresult'[1].claims = NilClaims
      ]_vars

\* C13: no call runs a signature verification under a signing method other
\* than RS256.
C13_Original ==
    \A v \in Validators : vmethod[v] \in {"", jwtAlg}

\* token is a three-segment token whose exp claim is before time t.
ExpiredBefore(token, t) ==
    /\ Len(token) = 3
    /\ "exp" \in DOMAIN token[2]
    /\ token[2].exp < t

\* C14: with keys loaded, a ValidateToken call on a token whose exp claim is
\* before the current time returns an error and nil claims; when the header
\* names a registered signing method the error carries the Expired bit, and
\* when the token is an RS256 token with a valid signature by the resolved
\* key and no other claim failure, Expired is its only bit.
C14_ExpiredRejected ==
    [][(ValidateStep /\ keysValue # 0 /\ ExpiredBefore(vtoken'[1], now)) =>
           LET token == vtoken'[1]
               err == vresult'[1].err
           IN  /\ vresult'[1].claims = NilClaims
               /\ err # ErrNil
               /\ ("alg" \in DOMAIN token[1] /\ token[1].alg \in SigningMethods) =>
                      "Expired" \in err.Errors
               /\ (/\ "alg" \in DOMAIN token[1]
                   /\ token[1].alg = jwtAlg
                   /\ token[3] = [by |-> Resolved(heap[keysValue], token[1]),
                                  over |-> <<token[1], token[2]>>]
                   /\ ("nbf" \in DOMAIN token[2] => now >= token[2].nbf)) =>
                      err.Errors = {"Expired"}
      ]_vars

\* C14 witness: an RS256 token signed by K1 that expired at 0 was verified
\* with K1 at time 1 and rejected as Expired alone.
C14_Witness ==
    /\ vpc[1] = "done"
    /\ now = 1
    /\ vtoken[1] = Sign(Header(jwtAlg), ClaimsExp("t2_example", 0), "K1")
    /\ vkey[1] = "K1"
    /\ vresult[1].err.Errors = {"Expired"}
    /\ vresult[1].claims = NilClaims

\* C15: after every step keysValue is empty or refers to a keysType whose
\* first is a key, and keysValue changes only by the handler storing the
\* non-nil keysType that parseVersionedKeys built from at least one parsed
\* key of the delivered material.
C15_StoredRingHasFirst ==
    [][/\ keysValue' # 0 =>
              /\ keysValue' \in DOMAIN heap'
              /\ heap'[keysValue'].first # Nil
              /\ heap'[keysValue'].first \in Keys \cup UnencodableKeys
       /\ keysValue' # keysValue =>
              /\ rpc = "store"
              /\ rkeys # 0
              /\ keysValue' = rkeys
              /\ heap'[keysValue'] = heap[rkeys]
              /\ ParseableAt(rall) # {}
              /\ heap[rkeys].first = FirstParseable(rall)
      ]_vars

\* C15 witness: the second rotation, whose current key does not parse, has
\* replaced the stored keysType by one whose first is its previous key K2.
C15_Witness ==
    /\ rpc = "next"
    /\ nrot = 2
    /\ keysValue = 2
    /\ rsec = VersionedSecret(invalidKey, PEM("K2"), NoSecret)
    /\ heap[keysValue].first = "K2"

C18_ClaimsIffNoError ==
    \A v \in Validators :
        vpc[v] = "done" =>
            /\ vresult[v].claims # NilClaims <=> vresult[v].err = ErrNil
            /\ vresult[v].claims # NilClaims => Len(vresult[v].claims) = 1

\* C18 witness: an RS384 token with a valid signature by K1, accepted by the
\* parser, was returned as a wrong signing method error with nil claims.
C18_Witness ==
    /\ vpc[1] = "done"
    /\ vtoken[1] = Sign(Header("RS384"), ClaimsExp("t2_example", Late), "K1")
    /\ vkey[1] = "K1"
    /\ vresult[1].err = NewValidationError("wrong signing method", {})
    /\ vresult[1].claims = NilClaims

\* C19: a ValidateToken call on the empty token made while nothing is stored
\* in keysValue returns ErrNoPublicKeysLoaded, not ErrEmptyToken; a call
\* returns ErrEmptyToken only when a keysType is stored, and then exactly for
\* the empty token.
C19_NoKeysBeforeEmptyToken ==
    [][ValidateStep =>
           /\ (keysValue = 0 /\ vtoken'[1] = EmptyToken) =>
                  /\ vresult'[1].err = ErrNoPublicKeysLoaded
                  /\ vresult'[1].err # ErrEmptyToken
           /\ vresult'[1].err = ErrEmptyToken <=>
                  (keysValue # 0 /\ vtoken'[1] = EmptyToken)
      ]_vars

\* C19 witness: the empty token was rejected with ErrNoPublicKeysLoaded after
\* a handler invocation that stored nothing.
C19_Witness ==
    /\ vpc[1] = "done"
    /\ vtoken[1] = EmptyToken
    /\ keysValue = 0
    /\ nrot > 0
    /\ vresult[1] = Returned(Result(NilClaims, ErrNoPublicKeysLoaded, Nil))

\* Some candidate of all parses to a key whose fingerprint cannot be computed.
HasUnencodable(all) ==
    \E i \in ParseableAt(all) : ParseRSAPublicKeyFromPEM(all[i]) \in UnencodableKeys

\* C20: when the fingerprint of a parsed candidate fails, the handler still
\* stores a keysType: the key is under no fingerprint of its map, every other
\* parsed key is indexed, and first is the first parsed candidate, the failing
\* key included, even when the map is left empty.
C20_FingerprintFailureKeepsFirst ==
    [][(rpc = "store" /\ rpc' = "next" /\ HasUnencodable(rall)) =>
           /\ rkeys # 0
           /\ keysValue' = rkeys
           /\ LET keys == heap'[keysValue']
              IN  /\ keys.first = FirstParseable(rall)
                  /\ \A f \in DOMAIN keys.m : keys.m[f] \notin UnencodableKeys
                  /\ DOMAIN keys.m = {FingerprintSHA256(k) : k \in IndexableKeys(rall)}
                  /\ IndexableKeys(rall) = {} => keys.m = EmptyMap
      ]_vars

\* C20 witness: the only candidate parsed but has no fingerprint; the stored
\* keysType has it as first and an empty map.
C20_Witness ==
    /\ rpc = "next"
    /\ rsec = VersionedSecret(PEM("K4"), NoSecret, NoSecret)
    /\ keysValue = nrot
    /\ heap[keysValue].first = "K4"
    /\ DOMAIN heap[keysValue].m = {}

\* The keys the candidates of all parse to.
ParsedKeys(all) == {ParseRSAPublicKeyFromPEM(all[i]) : i \in ParseableAt(all)}

\* Unexpired RS256 tokens signed by k, with every key id.
TokensSignedBy(k) ==
    {Sign(h, ClaimsExp("t2_example", Late), k) : h \in Headers(jwtAlg)}

\* C21: a stored keysType is never changed in place, and every store replaces
\* it by the keysType built from the delivered material alone: its first and
\* its map entries are keys of that material, and no token signed by a key of
\* the replaced keysType that the material lacks is accepted any more.
C21_ReplacedWholesale ==
    [][/\ (keysValue # 0 /\ keysValue \in DOMAIN heap') =>
              heap'[keysValue] = heap[keysValue]
       /\ keysValue' # keysValue =>
              /\ parseVersionedKeys(rsec) = <<heap'[keysValue']>>
              /\ RingKeys(heap'[keysValue']) = ParsedKeys(rall)
              /\ keysValue # 0 =>
                     \A k \in RingKeys(heap[keysValue]) \ ParsedKeys(rall) :
                         \A token \in TokensSignedBy(k) :
                             LET r == ValidateLoaded(keysValue', heap', token, now)
                             IN  r.err # ErrNil /\ r.claims = NilClaims
      ]_vars

\* C21 witness: the second rotation stored a keysType without K1 while a call
\* still holds the first one, whose first is K1.
C21_Witness ==
    /\ rpc = "next"
    /\ keysValue = 2
    /\ vkeys[1] = 1
    /\ heap[1].first = "K1"
    /\ "K1" \notin RingKeys(heap[2])
    /\ heap[2].first = "K2"

\* C22: keysValue changes only when a handler invocation whose material has
\* a parseable key stores the keysType built from it, which is then the one of
\* the latest invocation; an invocation that ends without a parseable key, or
\* without a secret, ends with keysValue as it was, and keysValue never goes
\* back to the keysType of an earlier invocation.
C22_LatestGoodRing ==
    [][/\ keysValue' # keysValue =>
              /\ rpc = "store"
              /\ ParseableAt(GetAll(rsec)) # {}
              /\ keysValue' = nrot
              /\ keysValue' > keysValue
       /\ (rpc' = "next" /\ rsec' # NoVersioned /\ ParseableAt(GetAll(rsec')) # {}) =>
              /\ keysValue' = nrot'
              /\ parseVersionedKeys(rsec') = <<heap'[keysValue']>>
       /\ (rpc' = "next" /\ (rsec' = NoVersioned \/ ParseableAt(GetAll(rsec')) = {})) =>
              /\ keysValue' < nrot'
              /\ keysValue' = keysValue
              /\ keysValue # 0 => heap'[keysValue'] = heap[keysValue]
      ]_vars

\* C22 witness: the first invocation stored a keysType with first K1; the
\* second, on material without a parseable key, has ended its parsing and
\* the first keysType is still stored.
C22_Witness ==
    /\ rpc = "next"
    /\ nrot = 2
    /\ keysValue = 1
    /\ heap[keysValue].first = "K1"
    /\ rsec = VersionedSecret(invalidKey, invalidKey, NoSecret)

\* C23: a ValidateToken call, whatever its token and its outcome, leaves
\* keysValue, the stored keysType's map and first, and every other keysType
\* as they were.
C23_ValidateReadsOnly ==
    [][ValidateStep =>
           /\ keysValue' = keysValue
           /\ heap' = heap
           /\ keysValue # 0 =>
                  /\ heap'[keysValue'].m = heap[keysValue].m
                  /\ heap'[keysValue'].first = heap[keysValue].first
      ]_vars

\* C23 witness: after the only rotation, a K1-signed token naming an unknown
\* key id was accepted through first, and the map still has no entry for
\* that key id.
C23_Witness ==
    /\ nrot = 1
    /\ keysValue = 1
    /\ vpc[1] = "done"
    /\ vtoken[1] = Sign(HeaderKid(jwtAlg, JSONString("SHA256:unknown")),
                        ClaimsExp("t2_example", Late), "K1")
    /\ vkey[1] = "K1"
    /\ vresult[1].err = ErrNil
    /\ heap[keysValue].first = "K1"
    /\ "SHA256:unknown" \notin DOMAIN heap[keysValue].m

\* C24: no step empties keysValue once a keysType is stored, and a
\* ValidateToken call returns ErrNoPublicKeysLoaded exactly when nothing is
\* stored; keysValue leaves the empty state only by a handler invocation
\* that stores a keysType with a parsed key.
C24_NeverEmptyAgain ==
    [][/\ keysValue # 0 => keysValue' # 0
       /\ ValidateStep =>
              (vresult'[1].err = ErrNoPublicKeysLoaded <=> keysValue = 0)
       /\ (keysValue = 0 /\ keysValue' # 0) =>
              /\ nrot' = nrot + 1
              /\ keysValue' = nrot'
              /\ heap'[keysValue'].first \in Keys
       /\ (keysValue = 0 /\ nrot = 0) => vresult[1].err # ErrEmptyToken
      ]_vars

\* C24 witness: a keysType was stored by the first invocation, a later
\* invocation stored nothing, and a call on the empty token was answered
\* with ErrEmptyToken, not ErrNoPublicKeysLoaded.
C24_Witness ==
    /\ nrot = 2
    /\ keysValue = 1
    /\ vpc[1] = "done"
    /\ vtoken[1] = EmptyToken
    /\ vresult[1].err = ErrEmptyToken
    /\ vresult[1].err # ErrNoPublicKeysLoaded

\* C25: every handler invocation calls next exactly once: never while it is
\* fetching, parsing or storing, once when it has returned, and the call
\* comes after the loop over the candidates and after the store, and changes
\* neither keysValue nor any keysType.
C25_NextExactlyOnce ==
    [][/\ rnext' <= 1
       /\ rpc' # "idle" => rnext' = 0
       /\ (rpc' = "idle" /\ nrot' > 0) => rnext' = 1
       /\ rnext' > rnext =>
              /\ rpc = "next"
              /\ rpc' = "idle"
              /\ ri > Len(rall)
              /\ rkeys = 0
              /\ keysValue' = keysValue
              /\ heap' = heap
       /\ (rpc = "next" /\ rpc' # "next") => rnext' = rnext + 1
      ]_vars

\* C25 witness: two invocations have returned, the second having stored a
\* keysType; next was called once by the one that just returned.
C25_Witness ==
    /\ rpc = "idle"
    /\ nrot = 2
    /\ keysValue = 2
    /\ rnext = 1

\* C26: a handler invocation whose GetVersionedSecret fails parses no key
\* and builds no keysType, and from its start to its return keysValue and
\* every keysType stay as they were.
C26_FetchFailureKeepsStore ==
    [][/\ (nrot' = nrot + 1 /\ rsec' = NoVersioned) =>
              /\ rpc' = "next"
              /\ rall' = <<>>
              /\ rkeys' = 0
              /\ keysValue' = keysValue
              /\ heap' = heap
       /\ (rpc = "next" /\ rsec = NoVersioned) =>
              /\ rpc' = "idle"
              /\ keysValue' = keysValue
              /\ heap' = heap
      ]_vars

\* C26 witness: the first invocation stored a keysType with first K1; the
\* second got no secret and is about to return with that keysType still
\* stored.
C26_Witness ==
    /\ rpc = "next"
    /\ rsec = NoVersioned
    /\ nrot = 2
    /\ keysValue = 1
    /\ rkeys = 0
    /\ heap[keysValue].first = "K1"

====
